---- MODULE Spec2Model ----
(***************************************************************************)
(* A model of azurerm/config.go: the MySQL server resource adapter         *)
(* (create / read / update / delete against the remote servers API), the   *)
(* client factory Config.getArmClient, the request-logging sender          *)
(* decorator withRequestLogging, the SKU conversions of the adapter, and   *)
(* the storage account key lookup ArmClient.getKeyForStorageAccount.       *)
(*                                                                         *)
(* Text whose case matters (enum values, environment names) is a sequence  *)
(* of one-character strings, so that case folding and wrapping are         *)
(* computed character by character.  A resource identifier is the sequence *)
(* of its "/"-separated path segments; the empty identifier is <<>>.       *)
(***************************************************************************)
EXTENDS Integers, Sequences, FiniteSets, TLC

(***************************************************************************)
(* Text                                                                    *)
(***************************************************************************)
UpperLetters ==
  <<"A","B","C","D","E","F","G","H","I","J","K","L","M",
    "N","O","P","Q","R","S","T","U","V","W","X","Y","Z">>

LowerLetters ==
  <<"a","b","c","d","e","f","g","h","i","j","k","l","m",
    "n","o","p","q","r","s","t","u","v","w","x","y","z">>

LetterIndex(alphabet, c) ==
  IF \E i \in 1..Len(alphabet) : alphabet[i] = c
    THEN CHOOSE i \in 1..Len(alphabet) : alphabet[i] = c
    ELSE 0

\* strings.ToLower
ToLower(s) ==
  [i \in 1..Len(s) |->
     IF LetterIndex(UpperLetters, s[i]) # 0
       THEN LowerLetters[LetterIndex(UpperLetters, s[i])]
       ELSE s[i]]

\* strings.ToUpper
ToUpper(s) ==
  [i \in 1..Len(s) |->
     IF LetterIndex(LowerLetters, s[i]) # 0
       THEN UpperLetters[LetterIndex(LowerLetters, s[i])]
       ELSE s[i]]

(***************************************************************************)
(* The schema of the MySQL server resource: the allow-lists                *)
(***************************************************************************)
MYSQLB50 == <<"M","Y","S","Q","L","B","5","0">>
MYSQLB100 == <<"M","Y","S","Q","L","B","1","0","0">>
\* mysql.Basic
Basic == <<"B","a","s","i","c">>
\* mysql.FiveFullStopSix, mysql.FiveFullStopSeven
FiveFullStopSix == <<"5",".","6">>
FiveFullStopSeven == <<"5",".","7">>
\* mysql.SslEnforcementEnumDisabled, mysql.SslEnforcementEnumEnabled
SslEnforcementEnumDisabled == <<"D","i","s","a","b","l","e","d">>
SslEnforcementEnumEnabled == <<"E","n","a","b","l","e","d">>

SkuNameAllowed == {MYSQLB50, MYSQLB100}

SkuCapacityAllowed == {50, 100}

SkuTierAllowed == {Basic}

VersionAllowed == {FiveFullStopSix, FiveFullStopSeven}

StorageMBAllowed == {51200, 102400}

SslEnforcementAllowed ==
  {SslEnforcementEnumDisabled, SslEnforcementEnumEnabled}

\* validation.StringInSlice(valid, ignoreCase): v == str, or with ignoreCase
\* strings.ToLower(v) == strings.ToLower(str), for some str of valid
StringInSlice(valid, ignoreCase, v) ==
  \E str \in valid : v = str \/ (ignoreCase /\ ToLower(v) = ToLower(str))

\* validateIntInSlice(valid): v is one of valid
IntInSlice(valid, v) == v \in valid

ValidateSkuName(v) == StringInSlice(SkuNameAllowed, TRUE, v)

ValidateSkuCapacity(v) == IntInSlice(SkuCapacityAllowed, v)

ValidateSkuTier(v) == StringInSlice(SkuTierAllowed, TRUE, v)

ValidateVersionAny(v) == TRUE
ValidateVersion(v) == StringInSlice(VersionAllowed, TRUE, v)

ValidateStorageMB(v) == IntInSlice(StorageMBAllowed, v)

ValidateSslEnforcement(v) == StringInSlice(SslEnforcementAllowed, TRUE, v)

\* The fields of a configuration whose ValidateFunc rejects its value, as the
\* host's schema validation reports them before it calls Create or Update.
SchemaErrors(cfg) ==
  {f \in {"sku.name", "sku.capacity", "sku.tier", "version", "storage_mb",
          "ssl_enforcement"} :
     \/ f = "sku.name"        /\ ~ValidateSkuName(cfg.sku.name)
     \/ f = "sku.capacity"    /\ ~ValidateSkuCapacity(cfg.sku.capacity)
     \/ f = "sku.tier"        /\ ~ValidateSkuTier(cfg.sku.tier)
     \/ f = "version"         /\ ~ValidateVersion(cfg.version)
     \/ f = "storage_mb"      /\ ~ValidateStorageMB(cfg.storage_mb)
     \/ f = "ssl_enforcement" /\ ~ValidateSslEnforcement(cfg.ssl_enforcement)}

(***************************************************************************)
(* The remote servers API and the values exchanged with it                 *)
(***************************************************************************)
\* http.StatusNotFound
StatusNotFound == 404

\* The statuses of a failed call other than not-found.
FailureStatuses == {500}

Subscription == "S"
ResourceGroup == "G"
Provider == "Microsoft.DBforMySQL"

\* The servers the remote API may hold (all in ResourceGroup).
NumServers == 1
AllServerNames == <<"srv1", "srv2", "srv3", "srv4">>

ServerNames == {AllServerNames[i] : i \in 1..NumServers}

EmptyId == <<>>

\* The identifier the remote API assigns to a server.
ServerId(resGroup, name) ==
  <<"subscriptions", Subscription, "resourceGroups", resGroup,
    "providers", Provider, "servers", name>>

NoSku == [name |-> <<>>, capacity |-> 0, tier |-> <<>>]

NoWireSku == [name |-> <<>>, capacity |-> 0, tier |-> <<>>, size |-> <<>>]

\* A server object of the remote API (mysql.Server); exists = FALSE is "no
\* such server".
NoServer ==
  [exists |-> FALSE, name |-> "", location |-> <<>>, sku |-> NoWireSku,
   version |-> <<>>,
   storage_mb |-> 0, ssl_enforcement |-> <<>>, fqdn |-> ""]

\* The outcome of an adapter function: the error it returns.
Pending == [kind |-> "pending"]
NoError == [kind |-> "nil"]
ValidationError(fields) == [kind |-> "validation", fields |-> fields]
ParseError == [kind |-> "parse"]
RemoteError(status) == [kind |-> "remote", status |-> status]
\* fmt.Errorf("Cannot read MySQL Server %s (resource group %s) ID", name, resGroup)
CannotReadIdError(name, resGroup) ==
  [kind |-> "cannot_read_id", name |-> name, resGroup |-> resGroup]
\* fmt.Errorf("Error making Read request on Azure MySQL Server %s: %+v", name, err)
ReadRequestError(name, err) ==
  [kind |-> "read_request", name |-> name, cause |-> err]
\* a nil-pointer dereference: the plugin process dies
Panic == [kind |-> "panic"]

(***************************************************************************)
(* Pure helpers of the adapter                                             *)
(***************************************************************************)
Digits == <<"0","1","2","3","4","5","6","7","8","9">>

RECURSIVE ItoaNat(_)
ItoaNat(n) ==
  IF n < 10 THEN <<Digits[n + 1]>>
  ELSE Append(ItoaNat(n \div 10), Digits[(n % 10) + 1])

\* strconv.Itoa
Itoa(n) == IF n < 0 THEN <<"-">> \o ItoaNat(-n) ELSE ItoaNat(n)

\* int32(x) keeps the low 32 bits of x.  Every integer of this model lies
\* within -2^31 .. 2^31 - 1 (the range of the model checker's integers), and
\* there the conversion changes nothing.
Int32(x) == x

\* azureRMNormalizeLocation: lower case, spaces removed
AzureRMNormalizeLocation(location) ==
  SelectSeq(ToLower(location), LAMBDA c : c # " ")

\* parseAzureResourceID on the path segments of an identifier: the segments
\* pair up as key/value; the first "subscriptions" pair is the subscription,
\* the others fill the component map (a later pair of a key overwrites).
SubscriptionIndex(id) ==
  LET is == {i \in 1..Len(id) : i % 2 = 1 /\ id[i] = "subscriptions"}
  IN  IF is = {} THEN 0 ELSE CHOOSE i \in is : \A j \in is : i <= j

ComponentIndex(id, key) ==
  LET is == {i \in 1..Len(id) :
               i % 2 = 1 /\ id[i] = key /\ i # SubscriptionIndex(id)}
  IN  IF is = {} THEN 0 ELSE CHOOSE i \in is : \A j \in is : i >= j

Component(id, key) ==
  IF ComponentIndex(id, key) = 0 THEN "" ELSE id[ComponentIndex(id, key) + 1]

parseAzureResourceID(id) ==
  IF \/ id = EmptyId
     \/ Len(id) % 2 # 0
     \/ \E i \in 1..Len(id) : id[i] = ""
     \/ SubscriptionIndex(id) = 0
     \/ /\ ComponentIndex(id, "resourceGroups") = 0
        /\ ComponentIndex(id, "resourcegroups") = 0
  THEN [ok |-> FALSE, ResourceGroup |-> "", servers |-> ""]
  ELSE [ok |-> TRUE,
        ResourceGroup |->
          IF ComponentIndex(id, "resourceGroups") # 0
            THEN Component(id, "resourceGroups")
            ELSE Component(id, "resourcegroups"),
        servers |-> Component(id, "servers")]

\* expandMySQLServerSku(d, storageMB): the wire SKU of the declared one
expandMySQLServerSku(dd, storageMB) ==
  [name     |-> dd.sku.name,
   capacity |-> Int32(dd.sku.capacity),
   tier     |-> dd.sku.tier,
   size     |-> Itoa(storageMB)]

flattenAndSetMySQLServerSkuWithoutTier(dd, resp) ==
  [dd EXCEPT !.sku = [name     |-> resp.name,
                      capacity |-> resp.capacity,
                      tier     |-> <<>>]]

\* flattenAndSetMySQLServerSku(d, resp): the declared SKU of a wire one
flattenAndSetMySQLServerSku(dd, resp) ==
  [dd EXCEPT !.sku = [name     |-> resp.name,
                      capacity |-> resp.capacity,
                      tier     |-> resp.tier]]

(***************************************************************************)
(* The configurations the host may hand to create and update               *)
(***************************************************************************)
WestUS == <<"W","e","s","t"," ","U","S">>

BaseConfig(name) ==
  [name                |-> name,
   resource_group_name |-> ResourceGroup,
   location            |-> WestUS,
   sku                 |-> [name |-> MYSQLB50, capacity |-> 50, tier |-> Basic],
   version             |-> FiveFullStopSix,
   storage_mb          |-> 51200,
   ssl_enforcement     |-> SslEnforcementEnumEnabled]

\* Accepted configurations: the base one, one that differs in the fields an
\* update may change (in other casings), one that differs in the fields that
\* force a new resource.
ValidConfigs ==
  UNION {
    { BaseConfig(n),
      [BaseConfig(n) EXCEPT
         !.sku = [name |-> ToLower(MYSQLB100), capacity |-> 100,
                  tier |-> ToUpper(Basic)],
         !.ssl_enforcement = ToLower(SslEnforcementEnumDisabled)],
      [BaseConfig(n) EXCEPT
         !.version = FiveFullStopSeven, !.storage_mb = 102400] }
    : n \in ServerNames }

\* Configurations with a value outside its allow-list.
InvalidConfigs ==
  LET b == BaseConfig(AllServerNames[1]) IN
  { [b EXCEPT !.sku.name = <<"M","Y","S","Q","L","S","5","0">>],
    [b EXCEPT !.sku.capacity = 75],
    [b EXCEPT !.sku.tier = <<"S","t","a","n","d","a","r","d">>],
    [b EXCEPT !.version = <<"5",".","5">>],
    [b EXCEPT !.storage_mb = 1024],
    [b EXCEPT !.ssl_enforcement = <<"M","a","y","b","e">>],
    [b EXCEPT !.sku.capacity = 0 - 50, !.version = <<>>] }

Configs == ValidConfigs \cup InvalidConfigs

NoConfig ==
  [name |-> "", resource_group_name |-> "", location |-> <<>>, sku |-> NoSku,
   version |-> <<>>, storage_mb |-> 0, ssl_enforcement |-> <<>>]

\* The identifiers an import may hand in: of a server that may exist (as the
\* remote API writes it, and with the resource group key in lower case), of
\* one that does not, and malformed ones.
ImportIds ==
  {ServerId(ResourceGroup, n) : n \in ServerNames} \cup
  { <<"subscriptions", Subscription, "resourcegroups", ResourceGroup,
      "providers", Provider, "servers", AllServerNames[1]>>,
    ServerId(ResourceGroup, "ghost"),
    <<"subscriptions", Subscription, "resourceGroups">>,
    <<"resourceGroups", ResourceGroup, "servers", AllServerNames[1]>> }

(***************************************************************************)
(* State                                                                   *)
(***************************************************************************)
VARIABLES
  d,            \* the declarative resource state (schema.ResourceData)
  remote,       \* the remote API's servers, by name
  lro,          \* the long-running remote operation of the current call
  pc,           \* where the current adapter call stands
  call,         \* the current (or last) adapter call and its outcome
  stopCanceled  \* ArmClient.StopContext is canceled

adapterVars == <<d, remote, lro, pc, call, stopCanceled>>

\* The state of a resource that does not exist yet.
EmptyState ==
  [id |-> EmptyId, name |-> "", resource_group_name |-> "", location |-> <<>>,
   sku |-> NoSku, version |-> <<>>, storage_mb |-> 0,
   ssl_enforcement |-> <<>>, fqdn |-> ""]

NoProperties ==
  [location |-> <<>>, sku |-> NoWireSku, version |-> <<>>, storage_mb |-> 0,
   ssl_enforcement |-> <<>>]

\* status: none, inflight, succeeded or failed (err: the failure);  existed:
\* the server was there when the operation completed;  received: the adapter
\* has received the completion.
NoLro ==
  [status |-> "none", kind |-> "", resGroup |-> "", name |-> "",
   err |-> NoError, properties |-> NoProperties, existed |-> FALSE,
   received |-> FALSE]

StartedLro(kind, resGroup, name, properties) ==
  [NoLro EXCEPT !.status = "inflight", !.kind = kind, !.resGroup = resGroup,
                !.name = name, !.properties = properties]

\* What the adapter saw of the answer to a Get (status -1: no Get yet).
NoAnswer == [hasResponse |-> FALSE, status |-> 0 - 1, idPresent |-> FALSE]

Answer(resp) ==
  [hasResponse |-> resp.hasResponse, status |-> resp.status,
   idPresent |-> resp.idPresent]

\* op: the function called;  cfg: the configuration handed in;  requests: the
\* remote calls it issued so far;  result: the error it returned (Pending
\* until it returns);  idAtEntry: the identifier it was called with;
\* getAnswer, readAnswer: the answers to the Get of create or update and to
\* the Get of read;  canceledInWait: StopContext was canceled while it waited
\* for its long-running operation.
NoCall ==
  [op |-> "", cfg |-> NoConfig, requests |-> <<>>, result |-> NoError,
   idAtEntry |-> EmptyId, getAnswer |-> NoAnswer, readAnswer |-> NoAnswer,
   canceledInWait |-> FALSE]

NewCall(op, cfg) ==
  [NoCall EXCEPT !.op = op, !.cfg = cfg, !.result = Pending,
                 !.idAtEntry = d.id]

\* A server somebody else created.
PreexistingServer(n) ==
  [exists |-> TRUE, name |-> n, location |-> AzureRMNormalizeLocation(WestUS),
   sku |-> [name |-> MYSQLB100, capacity |-> 100, tier |-> Basic,
            size |-> Itoa(102400)],
   version |-> FiveFullStopSeven, storage_mb |-> 102400,
   ssl_enforcement |-> SslEnforcementEnumDisabled,
   fqdn |-> n \o ".mysql.database.azure.com"]

AdapterInit ==
  /\ d = EmptyState
  /\ remote \in {r \in [ServerNames -> {NoServer} \cup
                                        {PreexistingServer(n) : n \in ServerNames}] :
                    \A n \in ServerNames : r[n] \in {NoServer, PreexistingServer(n)}}
  /\ lro = NoLro
  /\ pc = "idle"
  /\ call = NoCall
  /\ stopCanceled = FALSE

(***************************************************************************)
(* The remote API                                                          *)
(***************************************************************************)
Server(resGroup, name) ==
  IF resGroup = ResourceGroup /\ name \in ServerNames
    THEN remote[name] ELSE NoServer

\* What a Get of a server may answer: the object (whose ID a faulty answer may
\* lack) or not-found, as the remote state has it; at any time a failure
\* status, or no response at all (the transport failed).
GetResponses(resGroup, name) ==
  LET s == Server(resGroup, name) IN
  (IF s.exists
     THEN {[hasResponse |-> TRUE, status |-> 200, err |-> FALSE,
            idPresent |-> p, server |-> s] : p \in BOOLEAN}
     ELSE {[hasResponse |-> TRUE, status |-> StatusNotFound, err |-> TRUE,
            idPresent |-> FALSE, server |-> NoServer]})
  \cup {[hasResponse |-> TRUE, status |-> st, err |-> TRUE,
         idPresent |-> FALSE, server |-> NoServer] : st \in FailureStatuses}
  \cup {[hasResponse |-> FALSE, status |-> 0, err |-> TRUE,
         idPresent |-> FALSE, server |-> NoServer]}

\* The server a successful long-running operation leaves behind.
AppliedServer(op) ==
  LET old == Server(op.resGroup, op.name) IN
  CASE op.kind = "create" ->
         [exists |-> TRUE, name |-> op.name,
          location |-> op.properties.location,
          sku |-> op.properties.sku, version |-> op.properties.version,
          storage_mb |-> op.properties.storage_mb,
          ssl_enforcement |-> op.properties.ssl_enforcement,
          fqdn |-> op.name \o ".mysql.database.azure.com"]
    [] op.kind = "update" ->
         [old EXCEPT !.sku = op.properties.sku,
                     !.version = op.properties.version,
                     !.storage_mb = op.properties.storage_mb,
                     !.ssl_enforcement = op.properties.ssl_enforcement]
    [] OTHER -> NoServer

\* The remote API brings the operation in flight to its terminal state: it
\* succeeds (an update only of a server that exists; a delete also of one
\* that is already gone) or fails.
RemoteCompletes ==
  /\ lro.status = "inflight"
  /\ \/ /\ lro.kind = "update" => Server(lro.resGroup, lro.name).exists
        /\ lro' = [lro EXCEPT !.status = "succeeded",
                               !.existed = Server(lro.resGroup, lro.name).exists]
        /\ remote' = IF lro.resGroup = ResourceGroup /\ lro.name \in ServerNames
                       THEN [remote EXCEPT ![lro.name] = AppliedServer(lro)]
                       ELSE remote
     \/ /\ \E st \in FailureStatuses \cup
                     (IF lro.kind = "update" /\ ~Server(lro.resGroup, lro.name).exists
                        THEN {StatusNotFound} ELSE {}) :
             lro' = [lro EXCEPT !.status = "failed", !.err = RemoteError(st),
                                !.existed = Server(lro.resGroup, lro.name).exists]
        /\ UNCHANGED remote
  /\ UNCHANGED <<d, pc, call, stopCanceled>>

\* Somebody else deletes a server.
RemoteExternalDelete ==
  /\ \E n \in ServerNames :
       /\ remote[n].exists
       /\ remote' = [remote EXCEPT ![n] = NoServer]
  /\ UNCHANGED <<d, lro, pc, call, stopCanceled>>

(***************************************************************************)
(* The adapter: create, update, read, delete                               *)
(***************************************************************************)
\* The cancel channel create, update and delete hand to the client is
\* make(chan struct{}): a fresh channel that nothing closes.
CancelChannelClosed == FALSE

CanceledError == [kind |-> "canceled"]

\* err := <-error receives once the operation reached a terminal state or the
\* cancel channel handed to the client is closed.
CompletionReadyEarly == TRUE
CompletionReady ==
  /\ ~lro.received
  /\ lro.status \in {"succeeded", "failed"} \/ CancelChannelClosed

\* The error the completion channel yields.
CompletionError ==
  CASE lro.status = "failed"    -> lro.err
    [] lro.status = "succeeded" -> NoError
    [] OTHER                    -> CanceledError

\* mysql.ServerForCreate built by create
ServerForCreate(dd) ==
  [location        |-> dd.location,
   sku             |-> expandMySQLServerSku(dd, dd.storage_mb),
   version         |-> dd.version,
   storage_mb      |-> dd.storage_mb,
   ssl_enforcement |-> dd.ssl_enforcement]

\* mysql.ServerUpdateParameters built by update (no location)
ServerUpdateParameters(dd) ==
  [location        |-> <<>>,
   sku             |-> expandMySQLServerSku(dd, dd.storage_mb),
   version         |-> dd.version,
   storage_mb      |-> dd.storage_mb,
   ssl_enforcement |-> dd.ssl_enforcement]

\* read, Get answered not-found: d.SetId(""), return nil
ReadNotFoundAsError(dd, status) ==
  [d |-> dd, result |-> RemoteError(status)]
ReadNotFound(dd, status) ==
  [d |-> [dd EXCEPT !.id = EmptyId], result |-> NoError]

ReadSetFieldsWithoutFqdn(dd, resGroup, server) ==
  [flattenAndSetMySQLServerSku(dd, server.sku) EXCEPT
     !.name = server.name,
     !.resource_group_name = resGroup,
     !.location = AzureRMNormalizeLocation(server.location),
     !.version = server.version,
     !.storage_mb = server.storage_mb,
     !.ssl_enforcement = server.ssl_enforcement]

\* read, Get answered the server: the d.Set calls
ReadSetFields(dd, resGroup, server) ==
  [flattenAndSetMySQLServerSku(dd, server.sku) EXCEPT
     !.name = server.name,
     !.resource_group_name = resGroup,
     !.location = AzureRMNormalizeLocation(server.location),
     !.version = server.version,
     !.storage_mb = server.storage_mb,
     !.ssl_enforcement = server.ssl_enforcement,
     !.fqdn = server.fqdn]

ReadResponseClearingOnAnyError(dd, id, resp) ==
  IF resp.err
    THEN IF ~resp.hasResponse
           THEN [d |-> dd, result |-> Panic]
           ELSE ReadNotFound(dd, resp.status)
    ELSE [d |-> ReadSetFields(dd, id.ResourceGroup, resp.server),
          result |-> NoError]

\* read after its Get: the new state and the error returned.  resp.StatusCode
\* of an answer without a response dereferences nil.
ReadResponse(dd, id, resp) ==
  IF resp.err
    THEN IF ~resp.hasResponse
           THEN [d |-> dd, result |-> Panic]
           ELSE IF resp.status = StatusNotFound
                  THEN ReadNotFound(dd, resp.status)
                  ELSE [d |-> dd,
                        result |-> ReadRequestError(id.servers,
                                                    RemoteError(resp.status))]
    ELSE [d |-> ReadSetFields(dd, id.ResourceGroup, resp.server),
          result |-> NoError]

\* resourceArmMySqlServerRead on state dd, within call c: parse the
\* identifier, Get, map the answer.
resourceArmMySqlServerRead(dd, c) ==
  LET id == parseAzureResourceID(dd.id) IN
  IF ~id.ok
    THEN /\ d' = dd
         /\ call' = [c EXCEPT !.result = ParseError]
         /\ pc' = "idle"
    ELSE \E resp \in GetResponses(id.ResourceGroup, id.servers) :
           LET out == ReadResponse(dd, id, resp) IN
           /\ d' = out.d
           /\ call' = [c EXCEPT !.requests = Append(@, "Get"),
                                !.readAnswer = Answer(resp),
                                !.result = out.result]
           /\ pc' = IF out.result.kind = "panic" THEN "crashed" ELSE "idle"

\* create and update after the Get that follows the operation: the error
\* returned, or the identifier set and the trailing read to come.
FollowUpGetIgnoringMissingId(dd, resp) ==
  IF resp.err
    THEN [d |-> dd, result |-> RemoteError(resp.status), read |-> FALSE]
    ELSE [d |-> [dd EXCEPT !.id = ServerId(ResourceGroup, resp.server.name)],
          result |-> Pending, read |-> TRUE]
FollowUpGet(dd, resp) ==
  IF resp.err
    THEN [d |-> dd, result |-> RemoteError(resp.status), read |-> FALSE]
    ELSE IF ~resp.idPresent
           THEN [d |-> dd,
                 result |-> CannotReadIdError(dd.name, dd.resource_group_name),
                 read |-> FALSE]
           ELSE [d |-> [dd EXCEPT !.id = ServerId(ResourceGroup, resp.server.name)],
                 result |-> Pending, read |-> TRUE]

\* The state the host builds from a configuration before it calls create.
FromConfig(cfg) ==
  [EmptyState EXCEPT
     !.name = cfg.name,
     !.resource_group_name = cfg.resource_group_name,
     !.location = cfg.location,
     !.sku = cfg.sku,
     !.version = cfg.version,
     !.storage_mb = cfg.storage_mb,
     !.ssl_enforcement = cfg.ssl_enforcement]

\* The fields of the schema that are not ForceNew: the ones an update changes.
WithConfig(dd, cfg) ==
  [dd EXCEPT !.sku = cfg.sku, !.ssl_enforcement = cfg.ssl_enforcement]

\* A configuration the host hands to update: one that differs from the state
\* in no ForceNew field (a difference there replaces the resource instead).
Updatable(dd, cfg) ==
  /\ cfg.name = dd.name
  /\ cfg.resource_group_name = dd.resource_group_name
  /\ AzureRMNormalizeLocation(cfg.location) = AzureRMNormalizeLocation(dd.location)
  /\ ToLower(cfg.version) = ToLower(dd.version)
  /\ cfg.storage_mb = dd.storage_mb

WaitStates == {"create_wait", "update_wait", "delete_wait"}

\* The host validates a configuration against the schema before it calls
\* create (no identifier yet) or update, and calls neither when a ValidateFunc
\* rejects a value.
HostRejects(cfg) ==
  /\ pc = "idle"
  /\ SchemaErrors(cfg) # {}
  /\ call' = [NewCall(IF d.id = EmptyId THEN "create" ELSE "update", cfg)
                EXCEPT !.result = ValidationError(SchemaErrors(cfg))]
  /\ lro' = NoLro
  /\ UNCHANGED <<d, remote, pc, stopCanceled>>

\* resourceArmMySqlServerCreate up to err := <-error
CreateStart(cfg) ==
  /\ pc = "idle"
  /\ d.id = EmptyId
  /\ SchemaErrors(cfg) = {}
  /\ LET dd == FromConfig(cfg) IN
       /\ d' = dd
       /\ lro' = StartedLro("create", dd.resource_group_name, dd.name,
                             ServerForCreate(dd))
  /\ call' = [NewCall("create", cfg) EXCEPT !.requests = <<"CreateOrUpdate">>]
  /\ pc' = "create_wait"
  /\ UNCHANGED <<remote, stopCanceled>>

AwaitIgnoringError(waiting, next) ==
  /\ pc = waiting
  /\ CompletionReady
  /\ call' = call
  /\ pc' = next
  /\ lro' = [lro EXCEPT !.received = TRUE]
  /\ UNCHANGED <<d, remote, stopCanceled>>

\* err := <-error; if err != nil { return err }
Await(waiting, next) ==
  /\ pc = waiting
  /\ CompletionReady
  /\ IF CompletionError.kind # "nil"
       THEN /\ call' = [call EXCEPT !.result = CompletionError]
            /\ pc' = "idle"
       ELSE /\ call' = call
            /\ pc' = next
  /\ lro' = [lro EXCEPT !.received = TRUE]
  /\ UNCHANGED <<d, remote, stopCanceled>>

CreateAwait == Await("create_wait", "create_get")

\* read, err := client.Get(resGroup, name) ... d.SetId(*read.ID)
GetAfter(getting, reading) ==
  /\ pc = getting
  /\ \E resp \in GetResponses(d.resource_group_name, d.name) :
       LET out == FollowUpGet(d, resp) IN
       /\ d' = out.d
       /\ call' = [call EXCEPT !.requests = Append(@, "Get"),
                               !.getAnswer = Answer(resp),
                               !.result = out.result]
       /\ pc' = IF out.read THEN reading ELSE "idle"
  /\ UNCHANGED <<remote, lro, stopCanceled>>

CreateGet == GetAfter("create_get", "create_read")

\* return resourceArmMySqlServerRead(d, meta)
CreateRead ==
  /\ pc = "create_read"
  /\ resourceArmMySqlServerRead(d, call)
  /\ UNCHANGED <<remote, lro, stopCanceled>>

\* resourceArmMySqlServerUpdate up to err := <-error
UpdateStart(cfg) ==
  /\ pc = "idle"
  /\ d.id # EmptyId
  /\ SchemaErrors(cfg) = {}
  /\ Updatable(d, cfg)
  /\ LET dd == WithConfig(d, cfg) IN
       /\ d' = dd
       /\ lro' = StartedLro("update", dd.resource_group_name, dd.name,
                             ServerUpdateParameters(dd))
  /\ call' = [NewCall("update", cfg) EXCEPT !.requests = <<"Update">>]
  /\ pc' = "update_wait"
  /\ UNCHANGED <<remote, stopCanceled>>

UpdateAwait == Await("update_wait", "update_get")

UpdateGet == GetAfter("update_get", "update_read")

UpdateRead ==
  /\ pc = "update_read"
  /\ resourceArmMySqlServerRead(d, call)
  /\ UNCHANGED <<remote, lro, stopCanceled>>

\* The host refreshes a resource it holds.
Read ==
  /\ pc = "idle"
  /\ d.id # EmptyId
  /\ resourceArmMySqlServerRead(d, NewCall("read", NoConfig))
  /\ lro' = NoLro
  /\ UNCHANGED <<remote, stopCanceled>>

\* schema.ImportStatePassthrough: the external identifier becomes the state's
\* identifier, and read fills the state in.
Import(externalId) ==
  /\ pc = "idle"
  /\ d.id = EmptyId
  /\ resourceArmMySqlServerRead(
       [EmptyState EXCEPT !.id = externalId],
       [NewCall("import", NoConfig) EXCEPT !.idAtEntry = externalId])
  /\ lro' = NoLro
  /\ UNCHANGED <<remote, stopCanceled>>

DeleteStartWithoutParse ==
  /\ pc = "idle"
  /\ d.id # EmptyId
  /\ LET id == parseAzureResourceID(d.id) IN
       /\ lro' = StartedLro("delete", id.ResourceGroup, id.servers, NoProperties)
       /\ call' = [NewCall("delete", NoConfig) EXCEPT !.requests = <<"Delete">>]
       /\ pc' = "delete_wait"
  /\ UNCHANGED <<d, remote, stopCanceled>>

\* resourceArmMySqlServerDelete up to err = <-error
DeleteStart ==
  /\ pc = "idle"
  /\ d.id # EmptyId
  /\ LET id == parseAzureResourceID(d.id) IN
       IF ~id.ok
         THEN /\ call' = [NewCall("delete", NoConfig) EXCEPT !.result = ParseError]
              /\ lro' = NoLro
              /\ UNCHANGED pc
         ELSE /\ lro' = StartedLro("delete", id.ResourceGroup, id.servers,
                                   NoProperties)
              /\ call' = [NewCall("delete", NoConfig)
                            EXCEPT !.requests = <<"Delete">>]
              /\ pc' = "delete_wait"
  /\ UNCHANGED <<d, remote, stopCanceled>>

DeleteAwaitRequiringServer ==
  /\ pc = "delete_wait"
  /\ CompletionReady
  /\ call' = [call EXCEPT !.result =
                 IF CompletionError.kind = "nil" /\ ~lro.existed
                   THEN CannotReadIdError(lro.name, lro.resGroup)
                   ELSE CompletionError]
  /\ pc' = "idle"
  /\ lro' = [lro EXCEPT !.received = TRUE]
  /\ UNCHANGED <<d, remote, stopCanceled>>

\* err = <-error; return err
DeleteAwait ==
  /\ pc = "delete_wait"
  /\ CompletionReady
  /\ call' = [call EXCEPT !.result = CompletionError]
  /\ pc' = "idle"
  /\ lro' = [lro EXCEPT !.received = TRUE]
  /\ UNCHANGED <<d, remote, stopCanceled>>

\* The host cancels ArmClient.StopContext.
CancelStopContext ==
  /\ ~stopCanceled
  /\ stopCanceled' = TRUE
  /\ call' = [call EXCEPT !.canceledInWait = @ \/ pc \in WaitStates]
  /\ UNCHANGED <<d, remote, lro, pc>>

(***************************************************************************)
(* The client factory: Config.getArmClient                                 *)
(***************************************************************************)
\* The environments of azure.EnvironmentFromName, by name.
Environments ==
  { <<<<"A","Z","U","R","E","C","H","I","N","A","C","L","O","U","D">>, "ChinaCloud">>,
    <<<<"A","Z","U","R","E","G","E","R","M","A","N","C","L","O","U","D">>, "GermanCloud">>,
    <<<<"A","Z","U","R","E","P","U","B","L","I","C","C","L","O","U","D">>, "PublicCloud">>,
    <<<<"A","Z","U","R","E","U","S","G","O","V","E","R","N","M","E","N","T","C","L","O","U","D">>, "USGovernmentCloud">> }

EnvironmentError(name) == [kind |-> "environment", name |-> name]

\* azure.EnvironmentFromName: the environment whose name is the upper-cased
\* argument, or an error.
EnvironmentFromName(name) ==
  LET upper == ToUpper(name) IN
  IF \E e \in Environments : e[1] = upper
    THEN [ok |-> TRUE, env |-> (CHOOSE e \in Environments : e[1] = upper)[2],
          err |-> NoError]
    ELSE [ok |-> FALSE, env |-> "", err |-> EnvironmentError(upper)]

\* fmt.Sprintf("AZURE%sCLOUD", c.Environment)
Wrapped(name) ==
  <<"A","Z","U","R","E">> \o name \o <<"C","L","O","U","D">>

ResolveEnvironmentWithoutRetry(name) == EnvironmentFromName(name)

\* getArmClient, detect cloud from environment: the name as it is, then the
\* wrapped name; the error of the first attempt when both fail.
ResolveEnvironment(name) ==
  LET first == EnvironmentFromName(name) IN
  IF first.ok
    THEN first
    ELSE LET inner == EnvironmentFromName(Wrapped(name)) IN
         IF inner.ok THEN inner ELSE [inner EXCEPT !.err = first.err]

\* The environment names a configuration may carry.
EnvironmentNames ==
  {
    <<"g","e","r","m","a","n">>,
    <<"G","e","r","m","a","n">>,
    <<"A","Z","U","R","E","G","E","R","M","A","N","C","L","O","U","D">>,
    <<"A","z","u","r","e","G","e","r","m","a","n","C","l","o","u","d">>,
    <<"p","u","b","l","i","c">>,
    <<"P","U","B","L","I","C">>,
    <<"a","z","u","r","e","p","u","b","l","i","c","c","l","o","u","d">>,
    <<"c","h","i","n","a">>,
    <<"u","s","g","o","v","e","r","n","m","e","n","t">>,
    <<"A","z","u","r","e","C","h","i","n","a","C","l","o","u","d">>,
    <<>>,
    <<"m","a","r","s">>,
    <<"A","Z","U","R","E","G","E","R","M","A","N">>,
    <<"g","e","r","m","a","n","c","l","o","u","d">> }

\* The handles of ArmClient: the fields of the struct that hold a client.
ServiceHandles ==
  {
    "availSetClient", "usageOpsClient", "vmExtensionImageClient",
    "vmExtensionClient", "vmScaleSetClient", "vmImageClient", "vmClient",
    "imageClient", "diskClient", "cosmosDBClient", "appGatewayClient",
    "ifaceClient", "expressRouteCircuitClient", "loadBalancerClient",
    "localNetConnClient", "publicIPClient", "secGroupClient",
    "secRuleClient", "subnetClient", "netUsageClient",
    "vnetGatewayConnectionsClient", "vnetGatewayClient", "vnetClient",
    "vnetPeeringsClient", "routeTablesClient", "routesClient", "dnsClient",
    "zonesClient", "cdnProfilesClient", "cdnEndpointsClient",
    "containerRegistryClient", "containerServicesClient",
    "eventGridTopicsClient", "eventHubClient", "eventHubConsumerGroupClient",
    "eventHubNamespacesClient", "postgresqlConfigurationsClient",
    "postgresqlDatabasesClient", "postgresqlFirewallRulesClient",
    "postgresqlServersClient", "providers", "resourceGroupClient",
    "tagsClient", "resourceFindClient", "subscriptionsGroupClient",
    "jobsClient", "jobsCollectionsClient", "storageServiceClient",
    "storageUsageClient", "deploymentsClient", "redisClient",
    "trafficManagerProfilesClient", "trafficManagerEndpointsClient",
    "searchServicesClient", "serviceBusNamespacesClient",
    "serviceBusQueuesClient", "serviceBusTopicsClient",
    "serviceBusSubscriptionsClient", "keyVaultClient",
    "keyVaultManagementClient", "sqlDatabasesClient",
    "sqlElasticPoolsClient", "sqlFirewallRulesClient", "sqlServersClient",
    "appServicePlansClient", "appInsightsClient", "servicePrincipalsClient",
    "appsClient" }

H(field, endpoint, authorizer) ==
  [field |-> field, endpoint |-> endpoint, authorizer |-> authorizer,
   userAgent |-> TRUE, requestLogging |-> TRUE]

\* The handles getArmClient constructs, in the order it constructs them, with
\* the base endpoint and the authorizer it gives each.
Constructions ==
  <<
    H("availSetClient", "endpoint", "auth"),
    H("usageOpsClient", "endpoint", "auth"),
    H("vmExtensionImageClient", "endpoint", "auth"),
    H("vmExtensionClient", "endpoint", "auth"),
    H("vmImageClient", "endpoint", "auth"),
    H("vmScaleSetClient", "endpoint", "auth"),
    H("vmClient", "endpoint", "auth"),
    H("appGatewayClient", "endpoint", "auth"),
    H("containerRegistryClient", "endpoint", "auth"),
    H("containerServicesClient", "endpoint", "auth"),
    H("cosmosDBClient", "endpoint", "auth"),
    H("diskClient", "endpoint", "auth"),
    H("imageClient", "endpoint", "auth"),
    H("eventGridTopicsClient", "endpoint", "auth"),
    H("eventHubClient", "endpoint", "auth"),
    H("eventHubConsumerGroupClient", "endpoint", "auth"),
    H("eventHubNamespacesClient", "endpoint", "auth"),
    H("ifaceClient", "endpoint", "auth"),
    H("expressRouteCircuitClient", "endpoint", "auth"),
    H("loadBalancerClient", "endpoint", "auth"),
    H("localNetConnClient", "endpoint", "auth"),
    H("publicIPClient", "endpoint", "auth"),
    H("secGroupClient", "endpoint", "auth"),
    H("secRuleClient", "endpoint", "auth"),
    H("subnetClient", "endpoint", "auth"),
    H("vnetGatewayConnectionsClient", "endpoint", "auth"),
    H("vnetGatewayClient", "endpoint", "auth"),
    H("vnetClient", "endpoint", "auth"),
    H("vnetPeeringsClient", "endpoint", "auth"),
    H("postgresqlConfigurationsClient", "endpoint", "auth"),
    H("postgresqlDatabasesClient", "endpoint", "auth"),
    H("postgresqlFirewallRulesClient", "endpoint", "auth"),
    H("postgresqlServersClient", "endpoint", "auth"),
    H("routeTablesClient", "endpoint", "auth"),
    H("routesClient", "endpoint", "auth"),
    H("dnsClient", "endpoint", "auth"),
    H("zonesClient", "endpoint", "auth"),
    H("resourceGroupClient", "endpoint", "auth"),
    H("providers", "endpoint", "auth"),
    H("tagsClient", "endpoint", "auth"),
    H("resourceFindClient", "endpoint", "auth"),
    H("subscriptionsGroupClient", "endpoint", "auth"),
    H("jobsClient", "endpoint", "auth"),
    H("jobsCollectionsClient", "endpoint", "auth"),
    H("storageServiceClient", "endpoint", "auth"),
    H("storageUsageClient", "endpoint", "auth"),
    H("cdnProfilesClient", "endpoint", "auth"),
    H("cdnEndpointsClient", "endpoint", "auth"),
    H("deploymentsClient", "endpoint", "auth"),
    H("trafficManagerProfilesClient", "endpoint", "auth"),
    H("trafficManagerEndpointsClient", "endpoint", "auth"),
    H("redisClient", "endpoint", "auth"),
    H("searchServicesClient", "endpoint", "auth"),
    H("serviceBusNamespacesClient", "endpoint", "auth"),
    H("serviceBusQueuesClient", "endpoint", "auth"),
    H("serviceBusTopicsClient", "endpoint", "auth"),
    H("serviceBusSubscriptionsClient", "endpoint", "auth"),
    H("sqlDatabasesClient", "endpoint", "auth"),
    H("sqlFirewallRulesClient", "endpoint", "auth"),
    H("sqlElasticPoolsClient", "endpoint", "auth"),
    H("sqlServersClient", "endpoint", "auth"),
    H("appServicePlansClient", "endpoint", "auth"),
    H("appInsightsClient", "endpoint", "auth"),
    H("servicePrincipalsClient", "graphEndpoint", "graphAuth"),
    H("appsClient", "endpoint", "auth"),
    H("keyVaultClient", "endpoint", "auth"),
    H("keyVaultManagementClient", "", "keyVaultAuth") >>

VARIABLES
  build,  \* the call of getArmClient: where it stands, its locals, its result
  vault   \* the token exchanges of the key vault authorizer callback

\* pc: start, oauth, token, graphToken, handles, returned;  Environment: the
\* name configured;  env: the descriptor resolved;  management, graph: the
\* outcome of the token set-up for the audience;  client: the handles set so
\* far in the local client;  next: the construction to come;  hasClient, err:
\* what getArmClient returned (&client or nil, and the error).
FactoryInit ==
  /\ build = [pc |-> "start", Environment |-> <<>>, env |-> "",
              management |-> "none", graph |-> "none",
              client |-> {}, next |-> 1,
              hasClient |-> FALSE, err |-> NoError]
  /\ vault = "none"

OAuthError == [kind |-> "oauth"]
OAuthNilError == [kind |-> "oauth_nil"]
TokenError(audience) == [kind |-> "token", audience |-> audience]

ReturnError(err) ==
  build' = [build EXCEPT !.pc = "returned", !.hasClient = FALSE, !.err = err]

\* env, envErr := azure.EnvironmentFromName(c.Environment) ... return nil, envErr
GetArmClientEnvironment(name) ==
  /\ build.pc = "start"
  /\ LET r == ResolveEnvironment(name) IN
       IF r.ok
         THEN build' = [build EXCEPT !.pc = "oauth", !.Environment = name,
                                     !.env = r.env]
         ELSE build' = [build EXCEPT !.pc = "returned", !.Environment = name,
                                     !.hasClient = FALSE, !.err = r.err]
  /\ UNCHANGED vault

\* oauthConfig, err := adal.NewOAuthConfig(...): a configuration, an error, or
\* neither (a nil configuration)
GetArmClientOAuthConfig(outcome) ==
  /\ build.pc = "oauth"
  /\ CASE outcome = "error" -> ReturnError(OAuthError)
       [] outcome = "nil"   -> ReturnError(OAuthNilError)
       [] OTHER             -> build' = [build EXCEPT !.pc = "token"]
  /\ UNCHANGED vault

\* spt, err := adal.NewServicePrincipalToken(..., endpoint)
GetArmClientToken(ok) ==
  /\ build.pc = "token"
  /\ IF ok
       THEN build' = [build EXCEPT !.pc = "graphToken", !.management = "ok"]
       ELSE build' = [build EXCEPT !.pc = "returned", !.management = "failed",
                                   !.hasClient = FALSE,
                                   !.err = TokenError("management")]
  /\ UNCHANGED vault

\* graphSpt, err := adal.NewServicePrincipalToken(..., graphEndpoint); then
\* keyVaultAuth, a callback that exchanges no token until a request needs one
GetArmClientGraphToken(ok) ==
  /\ build.pc = "graphToken"
  /\ IF ok
       THEN build' = [build EXCEPT !.pc = "handles", !.graph = "ok"]
       ELSE build' = [build EXCEPT !.pc = "returned", !.graph = "failed",
                                   !.hasClient = FALSE,
                                   !.err = TokenError("graph")]
  /\ UNCHANGED vault

\* The next client is constructed and set in the local client.
GetArmClientHandle ==
  /\ build.pc = "handles"
  /\ build.next <= Len(Constructions)
  /\ build' = [build EXCEPT !.client = @ \cup {Constructions[build.next]},
                            !.next = @ + 1]
  /\ UNCHANGED vault

\* return &client, nil
GetArmClientReturn ==
  /\ build.pc = "handles"
  /\ build.next > Len(Constructions)
  /\ build' = [build EXCEPT !.pc = "returned", !.hasClient = TRUE,
                            !.err = NoError]
  /\ UNCHANGED vault

\* A request of keyVaultManagementClient has keyVaultAuth call back:
\* adal.NewServicePrincipalToken(..., resource) for the audience of the
\* request; a failure fails the request.
KeyVaultAuthorizerCallback(ok) ==
  /\ build.pc = "returned"
  /\ build.hasClient
  /\ vault' = IF ok THEN "ok" ELSE "failed"
  /\ UNCHANGED build

(***************************************************************************)
(* The request-logging sender decorator: withRequestLogging                *)
(***************************************************************************)
Requests ==
  [method : {"GET", "PUT", "DELETE"},
   url : {"https://management.azure.com/servers/srv1",
          "https://vault.azure.net/keys"}]

NoRequest == [method |-> "", url |-> ""]

\* A response (present = FALSE: nil) and an error, as a sender returns them.
NoResponse == [present |-> FALSE, status |-> 0]

Responses ==
  {NoResponse} \cup [present : {TRUE}, status : {200, StatusNotFound} \cup FailureStatuses]

TransportError == [kind |-> "transport"]

NoResult == [resp |-> NoResponse, err |-> NoError]

VARIABLES
  xchg  \* the call of the decorated sender: its request, what the wrapped
        \* sender was asked and answered, the log lines, what was returned

\* pc: idle, sending (s.Do(r) is out), received;  sent: the requests handed to
\* the wrapped sender;  answer: what the wrapped sender returned;  returned:
\* what the decorated sender returned (done: it has returned)
TransportInit ==
  xchg = [pc |-> "idle", request |-> NoRequest, sent |-> <<>>,
          requestDumpFailed |-> FALSE, responseDumpFailed |-> FALSE,
          answer |-> NoResult, returned |-> NoResult, done |-> FALSE,
          log |-> <<>>]

\* The line logged for the request: the dump, or the basic message.
RequestLine(r, dumpFails) ==
  IF ~dumpFails
    THEN [line |-> "AzureRM Request: dump", method |-> r.method,
          url |-> r.url, status |-> 0]
    ELSE [line |-> "AzureRM Request: method to url", method |-> r.method,
          url |-> r.url, status |-> 0]

\* The line logged for the response: the dump, the basic message, or the
\* message for no response.
ResponseLine(r, resp, dumpFails) ==
  IF resp.present
    THEN IF ~dumpFails
           THEN [line |-> "AzureRM Response for url: dump", method |-> "",
                 url |-> r.url, status |-> resp.status]
           ELSE [line |-> "AzureRM Response: status for url", method |-> "",
                 url |-> r.url, status |-> resp.status]
    ELSE [line |-> "Request to url completed with no response",
          method |-> "", url |-> r.url, status |-> 0]

\* The decorated sender is called with r: it logs the request and calls the
\* wrapped sender, s.Do(r).
SenderFuncBegin(r, dumpFails) ==
  /\ xchg.pc = "idle"
  /\ xchg' = [pc |-> "sending", request |-> r, sent |-> <<r>>,
              requestDumpFailed |-> dumpFails, responseDumpFailed |-> FALSE,
              answer |-> NoResult, returned |-> NoResult, done |-> FALSE,
              log |-> <<RequestLine(r, dumpFails)>>]

\* The wrapped sender returns a response or none, and an error or none.
WrappedSenderReturns(resp, err) ==
  /\ xchg.pc = "sending"
  /\ xchg' = [xchg EXCEPT !.pc = "received",
                          !.answer = [resp |-> resp, err |-> err]]

SenderFuncEndReturningDumpError(dumpFails) ==
  /\ xchg.pc = "received"
  /\ dumpFails => xchg.answer.resp.present
  /\ xchg' = [xchg EXCEPT
       !.pc = "idle",
       !.responseDumpFailed = dumpFails,
       !.log = Append(@, ResponseLine(xchg.request, xchg.answer.resp, dumpFails)),
       !.returned = IF dumpFails
                      THEN [resp |-> NoResponse, err |-> [kind |-> "dump"]]
                      ELSE xchg.answer,
       !.done = TRUE]

\* The decorated sender logs the response and returns resp, err.
SenderFuncEnd(dumpFails) ==
  /\ xchg.pc = "received"
  /\ dumpFails => xchg.answer.resp.present
  /\ xchg' = [xchg EXCEPT
       !.pc = "idle",
       !.responseDumpFailed = dumpFails,
       !.log = Append(@, ResponseLine(xchg.request, xchg.answer.resp, dumpFails)),
       !.returned = xchg.answer,
       !.done = TRUE]

(***************************************************************************)
(* The SKU conversions, applied one after the other                        *)
(***************************************************************************)
\* The spellings of an allow-listed value that the schema accepts besides
\* itself (the comparison ignores case), and one it does not.
Spellings(v) == {v, ToLower(v), ToUpper(v), Append(v, "x")}

\* The SKUs and storage sizes a configuration may declare, accepted or not.
SkuCandidates ==
  [name     : UNION {Spellings(v) : v \in SkuNameAllowed},
   capacity : SkuCapacityAllowed \cup {0, 75},
   tier     : UNION {Spellings(v) : v \in SkuTierAllowed}]

StorageCandidates == StorageMBAllowed \cup {1024}

\* pc: idle, declared, expanded, flattened;  d: the state create (or update)
\* holds;  wire: the mysql.Sku expandMySQLServerSku built from it;  back: the
\* state flattenAndSetMySQLServerSku set from wire.
VARIABLE skuTrip

SkuInit ==
  skuTrip = [pc |-> "idle", d |-> EmptyState, wire |-> NoWireSku,
             back |-> EmptyState]

\* The host hands create a configuration the schema accepts.
SkuDeclared(sku, storageMB) ==
  /\ skuTrip.pc = "idle"
  /\ ValidateSkuName(sku.name)
  /\ ValidateSkuCapacity(sku.capacity)
  /\ ValidateSkuTier(sku.tier)
  /\ ValidateStorageMB(storageMB)
  /\ skuTrip' = [skuTrip EXCEPT
                   !.pc = "declared",
                   !.d = [EmptyState EXCEPT !.sku = sku,
                                            !.storage_mb = storageMB]]

\* sku := expandMySQLServerSku(d, storageMB)
SkuExpanded ==
  /\ skuTrip.pc = "declared"
  /\ skuTrip' = [skuTrip EXCEPT
                   !.pc = "expanded",
                   !.wire = expandMySQLServerSku(skuTrip.d,
                                                 skuTrip.d.storage_mb)]

\* flattenAndSetMySQLServerSku(d, resp.Sku), the remote object carrying the
\* SKU it was sent
SkuFlattened ==
  /\ skuTrip.pc = "expanded"
  /\ skuTrip' = [skuTrip EXCEPT
                   !.pc = "flattened",
                   !.back = flattenAndSetMySQLServerSku(EmptyState,
                                                        skuTrip.wire)]

(***************************************************************************)
(* ArmClient.getKeyForStorageAccount                                       *)
(***************************************************************************)
StorageAccountNames == {"acct1", "acct2"}

\* A storage.AccountKey: Value is a *string, which may be nil.
NoValue == [hasValue |-> FALSE, value |-> ""]
KeyValue(v) == [hasValue |-> TRUE, value |-> v]

\* What *accountKeys.Keys may hold when Keys is not nil.
KeyLists ==
  { <<>>, <<KeyValue("key1")>>, <<KeyValue("key1"), KeyValue("key2")>>,
    <<NoValue, KeyValue("key2")>> }

\* What storageServiceClient.ListKeys may return: the result (with or without
\* an HTTP response; Keys nil or a list) and whether err is set.  A call that
\* got no response returns the zero result and an error.
ListKeysOutcomes ==
  { [hasResponse |-> FALSE, status |-> 0, err |-> TRUE, keysNil |-> TRUE,
     keys |-> <<>>] } \cup
  { [hasResponse |-> TRUE, status |-> st, err |-> e, keysNil |-> TRUE,
     keys |-> <<>>] : st \in {200, StatusNotFound} \cup FailureStatuses,
                      e \in BOOLEAN } \cup
  { [hasResponse |-> TRUE, status |-> st, err |-> e, keysNil |-> FALSE,
     keys |-> ks] : st \in {200, StatusNotFound} \cup FailureStatuses,
                    e \in BOOLEAN, ks \in KeyLists }

\* fmt.Errorf("Error retrieving keys for storage account %q: %s", ...)
RetrievingKeysError(name) == [kind |-> "retrieving_keys", name |-> name]
\* fmt.Errorf("Nil key returned for storage account %q", ...)
NilKeyError(name) == [kind |-> "nil_key", name |-> name]

\* What the function returns: (key, exists, err); returned = FALSE when it
\* does not return because it panicked (err tells where).
Returns(key, exists, err) ==
  [returned |-> TRUE, key |-> key, exists |-> exists, err |-> err]
Faults(where) ==
  [returned |-> FALSE, key |-> "", exists |-> FALSE,
   err |-> [kind |-> "panic", where |-> where]]

\* getKeyForStorageAccount after ListKeys returned accountKeys, err
getKeyForStorageAccount(storageAccountName, accountKeys) ==
  IF ~accountKeys.hasResponse
    THEN Faults("accountKeys.StatusCode")
  ELSE IF accountKeys.status = StatusNotFound
    THEN Returns("", FALSE, NoError)
  ELSE IF accountKeys.err
    THEN Returns("", TRUE, RetrievingKeysError(storageAccountName))
  ELSE IF accountKeys.keysNil
    THEN Returns("", FALSE, NilKeyError(storageAccountName))
  ELSE IF Len(accountKeys.keys) = 0
    THEN Faults("keys[0]")
  ELSE IF ~accountKeys.keys[1].hasValue
    THEN Faults("*keys[0].Value")
  ELSE Returns(accountKeys.keys[1].value, TRUE, NoError)

NoListKeys ==
  [hasResponse |-> FALSE, status |-> 0, err |-> FALSE, keysNil |-> TRUE,
   keys |-> <<>>]

\* pc: idle, listed, returned or crashed;  name: the storage account asked
\* for;  accountKeys: what ListKeys returned;  result: what the function
\* returned.
VARIABLE keyCall

KeyInit ==
  keyCall = [pc |-> "idle", name |-> "", accountKeys |-> NoListKeys,
             result |-> Returns("", FALSE, NoError)]

\* accountKeys, err := armClient.storageServiceClient.ListKeys(...)
ListKeysReturns(storageAccountName, outcome) ==
  /\ keyCall.pc = "idle"
  /\ keyCall' = [keyCall EXCEPT !.pc = "listed",
                                 !.name = storageAccountName,
                                 !.accountKeys = outcome]

\* the rest of getKeyForStorageAccount
GetKeyForStorageAccountEnds ==
  /\ keyCall.pc = "listed"
  /\ LET out == getKeyForStorageAccount(keyCall.name, keyCall.accountKeys)
     IN  keyCall' = [keyCall EXCEPT
                       !.pc = IF out.returned THEN "returned" ELSE "crashed",
                       !.result = out]

(***************************************************************************)
(* Specifications                                                          *)
(***************************************************************************)
vars ==
  <<d, remote, lro, pc, call, stopCanceled, build, vault, xchg, skuTrip,
    keyCall>>

\* What a step of one part leaves alone: the variables of the other parts.
exceptAdapter == <<build, vault, xchg, skuTrip, keyCall>>
exceptFactory == <<adapterVars, xchg, skuTrip, keyCall>>
exceptTransport == <<adapterVars, build, vault, skuTrip, keyCall>>
exceptSku == <<adapterVars, build, vault, xchg, keyCall>>
exceptKey == <<adapterVars, build, vault, xchg, skuTrip>>

Init ==
  AdapterInit /\ FactoryInit /\ TransportInit /\ SkuInit /\ KeyInit

\* The resource adapter and the remote servers API.
Next ==
  \/ \E cfg \in Configs : HostRejects(cfg) /\ UNCHANGED exceptAdapter
  \/ \E cfg \in Configs : CreateStart(cfg) /\ UNCHANGED exceptAdapter
  \/ CreateAwait /\ UNCHANGED exceptAdapter
  \/ CreateGet /\ UNCHANGED exceptAdapter
  \/ CreateRead /\ UNCHANGED exceptAdapter
  \/ \E cfg \in Configs : UpdateStart(cfg) /\ UNCHANGED exceptAdapter
  \/ UpdateAwait /\ UNCHANGED exceptAdapter
  \/ UpdateGet /\ UNCHANGED exceptAdapter
  \/ UpdateRead /\ UNCHANGED exceptAdapter
  \/ Read /\ UNCHANGED exceptAdapter
  \/ \E externalId \in ImportIds :
       Import(externalId) /\ UNCHANGED exceptAdapter
  \/ DeleteStart /\ UNCHANGED exceptAdapter
  \/ DeleteAwait /\ UNCHANGED exceptAdapter
  \/ CancelStopContext /\ UNCHANGED exceptAdapter
  \/ RemoteCompletes /\ UNCHANGED exceptAdapter
  \/ RemoteExternalDelete /\ UNCHANGED exceptAdapter

Spec == Init /\ [][Next]_vars

\* The client factory.
NextFactory ==
  \/ \E name \in EnvironmentNames :
       GetArmClientEnvironment(name) /\ UNCHANGED exceptFactory
  \/ \E outcome \in {"ok", "error", "nil"} :
       GetArmClientOAuthConfig(outcome) /\ UNCHANGED exceptFactory
  \/ \E ok \in BOOLEAN : GetArmClientToken(ok) /\ UNCHANGED exceptFactory
  \/ \E ok \in BOOLEAN : GetArmClientGraphToken(ok) /\ UNCHANGED exceptFactory
  \/ GetArmClientHandle /\ UNCHANGED exceptFactory
  \/ GetArmClientReturn /\ UNCHANGED exceptFactory
  \/ \E ok \in BOOLEAN :
       KeyVaultAuthorizerCallback(ok) /\ UNCHANGED exceptFactory

SpecFactory == Init /\ [][NextFactory]_vars

\* The decorated sender.
NextTransport ==
  \/ \E r \in Requests, dumpFails \in BOOLEAN :
       SenderFuncBegin(r, dumpFails) /\ UNCHANGED exceptTransport
  \/ \E resp \in Responses, err \in {NoError, TransportError} :
       WrappedSenderReturns(resp, err) /\ UNCHANGED exceptTransport
  \/ \E dumpFails \in BOOLEAN : SenderFuncEnd(dumpFails) /\ UNCHANGED exceptTransport

SpecTransport == Init /\ [][NextTransport]_vars

\* The SKU conversions.
NextSku ==
  \/ \E sku \in SkuCandidates, storageMB \in StorageCandidates :
       SkuDeclared(sku, storageMB) /\ UNCHANGED exceptSku
  \/ SkuExpanded /\ UNCHANGED exceptSku
  \/ SkuFlattened /\ UNCHANGED exceptSku

SpecSku == Init /\ [][NextSku]_vars

\* The storage account key lookup.
NextKey ==
  \/ \E name \in StorageAccountNames, outcome \in ListKeysOutcomes :
       ListKeysReturns(name, outcome) /\ UNCHANGED exceptKey
  \/ GetKeyForStorageAccountEnds /\ UNCHANGED exceptKey

SpecKey == Init /\ [][NextKey]_vars

(***************************************************************************)
(* Properties of the adapter                                               *)
(***************************************************************************)
Terminal == {"succeeded", "failed"}

\* A value of the configuration matches no entry of its allow-list (text
\* without regard to case).
OutsideAllowList(cfg) ==
  LET fold(list) == {ToUpper(x) : x \in list} IN
  \/ ToUpper(cfg.sku.name) \notin fold(SkuNameAllowed)
  \/ cfg.sku.capacity \notin SkuCapacityAllowed
  \/ ToUpper(cfg.sku.tier) \notin fold(SkuTierAllowed)
  \/ ToUpper(cfg.version) \notin fold(VersionAllowed)
  \/ cfg.storage_mb \notin StorageMBAllowed
  \/ ToUpper(cfg.ssl_enforcement) \notin fold(SslEnforcementAllowed)

\* C1: whenever read (on its own, after an import, or as the trailing read of
\* create or update) got not-found (404) from its Get - which it issues only
\* for a well-formed identifier - it has returned no error and the state's
\* identifier is empty.
C1_ReadNotFoundClearsId ==
  call.readAnswer.status = StatusNotFound =>
    /\ parseAzureResourceID(call.idAtEntry).ok \/ call.op \in {"create", "update"}
    /\ pc = "idle"
    /\ call.result = NoError
    /\ d.id = EmptyId

C1_Witness ==
  /\ call.op = "read"
  /\ call.idAtEntry # EmptyId
  /\ call.readAnswer.status = StatusNotFound
  /\ call.result = NoError
  /\ d.id = EmptyId

\* C2: when the remote creation started by create failed, create issues no
\* Get (its only request is CreateOrUpdate), the identifier stays empty, and
\* once create has received the completion it has returned that error.
C2_CreateFailureReturnsError ==
  (call.op = "create" /\ lro.status = "failed") =>
    /\ call.requests = <<"CreateOrUpdate">>
    /\ call.getAnswer = NoAnswer
    /\ call.readAnswer = NoAnswer
    /\ d.id = EmptyId
    /\ pc \in {"create_wait", "idle"}
    /\ lro.received =>
         /\ pc = "idle"
         /\ call.result = lro.err
         /\ call.result.kind \notin {"nil", "pending"}

C2_Witness ==
  /\ call.op = "create"
  /\ lro.status = "failed"
  /\ lro.received
  /\ pc = "idle"
  /\ call.result.kind = "remote"

\* C3: when the remote creation succeeded and the Get that follows answered an
\* object without an identifier, create has returned the error that names the
\* server and its resource group, has not gone on to read, and the state's
\* identifier is empty.
C3_CreateWithoutIdFails ==
  (/\ call.op = "create"
   /\ call.getAnswer.hasResponse
   /\ call.getAnswer.status = 200
   /\ ~call.getAnswer.idPresent) =>
    /\ lro.status = "succeeded"
    /\ pc = "idle"
    /\ call.result = CannotReadIdError(call.cfg.name, call.cfg.resource_group_name)
    /\ call.readAnswer = NoAnswer
    /\ d.id = EmptyId

C3_Witness ==
  /\ call.op = "create"
  /\ call.getAnswer.status = 200
  /\ ~call.getAnswer.idPresent
  /\ call.result.kind = "cannot_read_id"

\* C6: whenever create or update is asked for with a configuration that has a
\* value outside its allow-list, no remote call is issued, no remote operation
\* is started and the outcome is a validation error.
C6_InvalidValuesRejectedBeforeAnyCall ==
  (call.op \in {"create", "update"} /\ OutsideAllowList(call.cfg)) =>
    /\ call.requests = <<>>
    /\ lro.status = "none"
    /\ pc = "idle"
    /\ call.result.kind = "validation"
    /\ call.result.fields # {}

C6_Witness ==
  /\ call.op = "update"
  /\ d.id # EmptyId
  /\ OutsideAllowList(call.cfg)
  /\ call.requests = <<>>
  /\ call.result.kind = "validation"

\* C8 (as claimed): when StopContext was canceled while update waited for its
\* long-running operation, update leaves the wait only by returning a
\* cancellation error.
C8_CancelEndsUpdateWait ==
  (call.op = "update" /\ call.canceledInWait /\ pc # "update_wait") =>
    /\ pc = "idle"
    /\ call.result.kind = "canceled"

C10_DeleteReturnsCompletionOnly ==
  (call.op = "delete" /\ parseAzureResourceID(call.idAtEntry).ok) =>
    /\ call.requests = <<"Delete">>
    /\ call.getAnswer = NoAnswer
    /\ call.readAnswer = NoAnswer
    /\ pc \in {"delete_wait", "idle"}
    /\ pc = "idle" =>
         /\ lro.received
         /\ lro.status \in Terminal
         /\ call.result = (IF lro.status = "failed" THEN lro.err ELSE NoError)
         /\ call.result.kind # "cannot_read_id"

C10_Witness ==
  /\ call.op = "delete"
  /\ pc = "idle"
  /\ lro.status = "succeeded"
  /\ ~lro.existed
  /\ call.result = NoError

\* C11: a call of read or of delete on a state whose identifier does not
\* parse returns the parse error at once, issues no remote call, starts no
\* remote operation, and leaves the identifier and every attribute of the
\* state, and the remote servers, as they were.
C11_MalformedIdIsParseError ==
  [][ (/\ pc = "idle"
       /\ call' # call
       /\ call'.op \in {"read", "delete"}
       /\ ~parseAzureResourceID(d.id).ok) =>
        /\ call'.result = ParseError
        /\ call'.requests = <<>>
        /\ call'.readAnswer = NoAnswer
        /\ lro'.status = "none"
        /\ pc' = "idle"
        /\ d' = d
        /\ remote' = remote ]_vars

C11_Witness ==
  /\ call.op = "delete"
  /\ d.id # EmptyId
  /\ call.idAtEntry = d.id
  /\ ~parseAzureResourceID(d.id).ok
  /\ call.result = ParseError
  /\ call.requests = <<>>

\* C12 (as claimed): when the Get of read failed with anything other than
\* not-found, read has returned an error and the state's identifier is the one
\* read was called with.
C12_ReadFailureReturnsError ==
  (/\ call.op = "read"
   /\ call.readAnswer # NoAnswer
   /\ call.readAnswer.status \notin {200, StatusNotFound}) =>
    /\ pc = "idle"
    /\ call.result.kind \notin {"nil", "pending", "panic"}
    /\ d.id = call.idAtEntry

\* C13 (as claimed): when create or update has returned an error after its
\* long-running operation succeeded (so the Get that follows, or the trailing
\* read, failed), the error is not the bare remote error: it carries the
\* server's name and its resource group.
C13_SecondStepErrorNamesStep ==
  (/\ call.op \in {"create", "update"}
   /\ pc = "idle"
   /\ lro.status = "succeeded"
   /\ lro.received
   /\ call.result.kind \notin {"nil", "pending"}) =>
    /\ call.result.kind # "remote"
    /\ {"name", "resGroup"} \subseteq DOMAIN call.result
    /\ call.result.name = call.cfg.name
    /\ call.result.resGroup = call.cfg.resource_group_name

C16_ComputedFieldsEqualRemote ==
  [][ (/\ pc \in {"create_read", "update_read"}
       /\ pc' = "idle"
       /\ call'.result = NoError
       /\ d'.id # EmptyId) =>
        LET id == parseAzureResourceID(d'.id)
            s  == Server(id.ResourceGroup, id.servers)
        IN  /\ s.exists
            /\ d'.fqdn = s.fqdn
            /\ d'.fqdn # ""
            /\ d'.sku.name = s.sku.name
            /\ d'.sku.capacity = s.sku.capacity
            /\ d'.sku.tier = s.sku.tier
            /\ d'.version = s.version
            /\ d'.storage_mb = s.storage_mb
            /\ d'.ssl_enforcement = s.ssl_enforcement
            /\ call'.op = "create" =>
                 /\ d'.sku = call'.cfg.sku
                 /\ d'.storage_mb = call'.cfg.storage_mb ]_vars

C16_Witness ==
  /\ call.op = "create"
  /\ pc = "idle"
  /\ call.result = NoError
  /\ call.cfg = BaseConfig(AllServerNames[1])
  /\ d.id = ServerId(ResourceGroup, AllServerNames[1])
  /\ d.fqdn = remote[AllServerNames[1]].fqdn
  /\ d.fqdn # ""
  /\ d.sku = [name |-> MYSQLB50, capacity |-> 50, tier |-> Basic]
  /\ d.storage_mb = 51200

\* C17 (as claimed): after delete returned without error the state's
\* identifier is empty, and after it returned an error the identifier is the
\* one delete was called with.
C17_DeleteClearsId ==
  (call.op = "delete" /\ pc = "idle") =>
    IF call.result = NoError
      THEN d.id = EmptyId
      ELSE d.id = call.idAtEntry

\* C18 (as claimed): once create has returned, it returned no error exactly
\* when the state's identifier is not empty.
C18_CreateOutcomeAgreesWithId ==
  (call.op = "create" /\ pc = "idle") =>
    (call.result = NoError <=> d.id # EmptyId)

(***************************************************************************)
(* Properties of the client factory                                        *)
(***************************************************************************)
EnvironmentNamed(upper) == {e \in Environments : e[1] = upper}

\* C4 (as claimed): getArmClient returns either the client with every handle
\* of ArmClient constructed and no error, or no client and an error; and when
\* a token exchange failed (management, directory or vault audience) it has
\* returned no client and an error.
C4_BuildAllOrNothing ==
  /\ build.pc = "returned" =>
       \/ /\ build.hasClient
          /\ build.err = NoError
          /\ {h.field : h \in build.client} = ServiceHandles
       \/ /\ ~build.hasClient
          /\ build.err # NoError
  /\ ("failed" \in {build.management, build.graph, vault}) =>
       /\ build.pc = "returned"
       /\ ~build.hasClient
       /\ build.err # NoError

\* C5: once getArmClient has resolved the environment, the descriptor is the
\* one of the name as written (upper-cased) when that is an environment's
\* name, else the one of the wrapped name AZURE<name>CLOUD when that is; it
\* returned the environment error, and no client, exactly when neither is;
\* and every other spelling with the same exact or wrapped name resolves to
\* the same descriptor.
C5_EnvironmentResolution ==
  build.pc # "start" =>
    LET exact   == EnvironmentNamed(ToUpper(build.Environment))
        wrapped == EnvironmentNamed(
                     ToUpper(<<"A","Z","U","R","E">> \o build.Environment
                             \o <<"C","L","O","U","D">>))
        canon(n) == IF EnvironmentNamed(ToUpper(n)) # {}
                      THEN ToUpper(n)
                      ELSE ToUpper(<<"A","Z","U","R","E">> \o n
                                   \o <<"C","L","O","U","D">>)
    IN  /\ exact # {} => \E e \in exact : build.env = e[2]
        /\ (exact = {} /\ wrapped # {}) => \E e \in wrapped : build.env = e[2]
        /\ (build.err.kind = "environment") <=> (exact = {} /\ wrapped = {})
        /\ build.err.kind = "environment" =>
             /\ build.pc = "returned"
             /\ ~build.hasClient
             /\ build.client = {}
             /\ build.env = ""
        /\ \A other \in EnvironmentNames :
             (build.env # "" /\ canon(other) = canon(build.Environment)) =>
               /\ ResolveEnvironment(other).ok
               /\ ResolveEnvironment(other).env = build.env

C5_Witness ==
  /\ build.Environment = <<"g","e","r","m","a","n">>
  /\ build.env = "GermanCloud"
  /\ build.pc = "returned"
  /\ build.hasClient

(***************************************************************************)
(* Properties of the decorated sender                                      *)
(***************************************************************************)
\* C7: the decorated sender hands its request to the wrapped sender exactly
\* once, and when it has returned, it returned exactly the response and the
\* error the wrapped sender returned, whether or not a dump failed and whether
\* or not there was a response; a failed dump shows only in the log line.
C7_LoggingIsTransparent ==
  /\ xchg.pc # "idle" => xchg.sent = <<xchg.request>>
  /\ xchg.done =>
       /\ xchg.pc = "idle"
       /\ xchg.sent = <<xchg.request>>
       /\ xchg.returned = xchg.answer
       /\ Len(xchg.log) = 2
       /\ xchg.requestDumpFailed <=>
            xchg.log[1].line = "AzureRM Request: method to url"
       /\ xchg.responseDumpFailed <=>
            xchg.log[2].line = "AzureRM Response: status for url"
       /\ ~xchg.answer.resp.present <=>
            xchg.log[2].line = "Request to url completed with no response"

C7_Witness ==
  /\ xchg.done
  /\ xchg.requestDumpFailed
  /\ xchg.responseDumpFailed
  /\ xchg.answer.err = NoError
  /\ xchg.returned = xchg.answer

(***************************************************************************)
(* Properties of the SKU conversions                                       *)
(***************************************************************************)
\* C14: for every SKU the schema accepts (name, capacity and tier from their
\* allow-lists, in any accepted spelling, with any accepted storage size),
\* flattenAndSetMySQLServerSku applied to what expandMySQLServerSku built
\* sets a SKU whose name, capacity and tier equal the declared ones, and the
\* wire object's size is the storage size in decimal.
C14_SkuRoundTrip ==
  /\ skuTrip.pc \in {"expanded", "flattened"} =>
       /\ skuTrip.wire.name = skuTrip.d.sku.name
       /\ skuTrip.wire.capacity = skuTrip.d.sku.capacity
       /\ skuTrip.wire.tier = skuTrip.d.sku.tier
       /\ skuTrip.wire.size \in {<<"5","1","2","0","0">>,
                                  <<"1","0","2","4","0","0">>}
  /\ skuTrip.pc = "flattened" =>
       /\ skuTrip.back.sku.name = skuTrip.d.sku.name
       /\ skuTrip.back.sku.capacity = skuTrip.d.sku.capacity
       /\ skuTrip.back.sku.tier = skuTrip.d.sku.tier

C14_Witness ==
  /\ skuTrip.pc = "flattened"
  /\ skuTrip.d.sku = [name |-> ToLower(MYSQLB100), capacity |-> 100,
                      tier |-> ToUpper(Basic)]
  /\ skuTrip.d.storage_mb = 102400
  /\ skuTrip.back.sku = skuTrip.d.sku

(***************************************************************************)
(* Properties of the storage account key lookup                            *)
(***************************************************************************)
\* C19 (as claimed): getKeyForStorageAccount, once ListKeys has returned,
\* ends by returning, never by faulting, and what it returns is ("", false,
\* nil) when the response status is 404, else ("", true, error) when the call
\* reported an error, else ("", false, error) when the key list is missing,
\* else an outcome with the first key, exists = true and no error when the
\* list is not empty.
C19_KeyLookupNeverFaults ==
  keyCall.pc \in {"returned", "crashed"} =>
    /\ keyCall.pc = "returned"
    /\ keyCall.result.returned
    /\ LET a == keyCall.accountKeys
           r == keyCall.result
       IN  IF a.hasResponse /\ a.status = StatusNotFound
             THEN r = Returns("", FALSE, NoError)
           ELSE IF a.err
             THEN r.key = "" /\ r.exists /\ r.err # NoError
           ELSE IF a.keysNil
             THEN r.key = "" /\ ~r.exists /\ r.err # NoError
           ELSE a.keys # <<>> =>
                  r = Returns(a.keys[1].value, TRUE, NoError)

====
